---- MODULE Spec2Model ----
(***************************************************************************)
(* Model of ez-rust-discovery: ServiceManager::new (configuration          *)
(* resolution from ServeOptions and the process environment, address       *)
(* validation, construction of the ServiceInstance), online() and          *)
(* offline() (src/src/lib.rs), and the example program                     *)
(* (src/examples/grpc_service.rs).                                         *)
(*                                                                         *)
(* Rust strings that the code inspects (addresses) are sequences of        *)
(* one-character strings; strings the code only passes on (names, hosts)   *)
(* are TLA+ strings.                                                       *)
(***************************************************************************)
EXTENDS Integers, Sequences, FiniteSets, TLC

\* ------------------------------------------------------------------------
\* Bounds of the model
\* ------------------------------------------------------------------------

\* Longest sequence of online()/offline() calls made on one manager.
MaxCalls == 3

\* ------------------------------------------------------------------------
\* Option<T>
\* ------------------------------------------------------------------------

Some(v) == [some |-> TRUE, val |-> v]

\* None of an Option<String> whose value the code passes on uninspected.
NoneStr == [some |-> FALSE, val |-> ""]

\* None of an Option<String> holding an address (a character sequence).
NoneAddr == [some |-> FALSE, val |-> <<>>]

\* ------------------------------------------------------------------------
\* Characters and numbers
\* ------------------------------------------------------------------------

HexChars == <<"0", "1", "2", "3", "4", "5", "6", "7", "8", "9",
              "a", "b", "c", "d", "e", "f">>

UpperHexChars == <<"A", "B", "C", "D", "E", "F">>

\* char::to_digit(radix): the digit's value, or -1 when c is no digit.
ToDigit(c, radix) ==
    IF \E i \in 1..radix : HexChars[i] = c
    THEN (CHOOSE i \in 1..radix : HexChars[i] = c) - 1
    ELSE IF radix = 16 /\ \E i \in 1..6 : UpperHexChars[i] = c
    THEN (CHOOSE i \in 1..6 : UpperHexChars[i] = c) + 9
    ELSE -1

\* Number of consecutive radix digits of s starting at position pos.
RECURSIVE DigitRun(_, _, _)
DigitRun(s, pos, radix) ==
    IF pos <= Len(s) /\ ToDigit(s[pos], radix) >= 0
    THEN 1 + DigitRun(s, pos + 1, radix)
    ELSE 0

\* Value of the n digits of s starting at pos, accumulated as the parsers do
\* (result * radix + digit, both checked): -1 as soon as it would exceed maxVal.
RECURSIVE CheckedValue(_, _, _, _, _)
CheckedValue(s, pos, n, radix, maxVal) ==
    IF n = 0 THEN 0
    ELSE LET prev == CheckedValue(s, pos, n - 1, radix, maxVal)
             d    == ToDigit(s[pos + n - 1], radix)
         IN  IF prev = -1 THEN -1
             ELSE IF prev > (maxVal - d) \div radix THEN -1
             ELSE prev * radix + d

U8Max == 255
U16Max == 65535
I32Max == 2147483647
\* u32::MAX = 4294967295 = U32MaxDiv10 * 10 + U32MaxMod10
U32MaxDiv10 == 429496729
U32MaxMod10 == 5
\* -i32::MIN = 2147483648 = I32MinDiv10 * 10 + I32MinMod10
I32MinDiv10 == 214748364
I32MinMod10 == 8

Fail == [ok |-> FALSE, pos |-> 0, val |-> 0]

\* Parser::read_number: all the digits at pos (greedy); fails on no digit, more
\* than maxDigits digits (0: no limit), a zero prefix where not allowed, or a
\* value that does not fit the target type (checked_mul / checked_add).
ReadNumber(s, pos, radix, maxDigits, allowZeroPrefix, maxVal) ==
    LET n == DigitRun(s, pos, radix)
        hasLeadingZero == pos <= Len(s) /\ s[pos] = "0"
        v == CheckedValue(s, pos, n, radix, maxVal)
    IN  IF n = 0 THEN Fail
        ELSE IF maxDigits > 0 /\ n > maxDigits THEN Fail
        ELSE IF ~allowZeroPrefix /\ hasLeadingZero /\ n > 1 THEN Fail
        ELSE IF v = -1 THEN Fail
        ELSE [ok |-> TRUE, pos |-> pos + n, val |-> v]

\* Whether the n >= 1 decimal digits at pos make a value of at most
\* maxDiv10 * 10 + maxMod10 (a limit beyond the model's integers).
FitsWide(s, pos, n, maxDiv10, maxMod10) ==
    LET prev == CheckedValue(s, pos, n - 1, 10, maxDiv10)
    IN  prev # -1 /\ (prev < maxDiv10 \/ ToDigit(s[pos + n - 1], 10) <= maxMod10)

\* Parser::read_number into a u32 (the scope id, whose value is not used).
ReadNumberU32(s, pos) ==
    LET n == DigitRun(s, pos, 10)
    IN  IF n = 0 \/ ~FitsWide(s, pos, n, U32MaxDiv10, U32MaxMod10) THEN Fail
        ELSE [ok |-> TRUE, pos |-> pos + n, val |-> 0]

\* Parser::read_given_char: the position after c, or 0 when s has no c at pos.
ReadGivenChar(s, pos, c) ==
    IF pos >= 1 /\ pos <= Len(s) /\ s[pos] = c THEN pos + 1 ELSE 0

\* Parser::read_separator: the separator is read before every item but the first.
ReadSeparator(s, pos, sep, index) ==
    IF index = 0 THEN pos ELSE ReadGivenChar(s, pos, sep)

\* Parser::read_ipv4_addr: four decimal octets separated by '.', each of at most
\* three digits with no zero prefix. Returns the position after it, or 0.
RECURSIVE ReadIpv4Groups(_, _, _)
ReadIpv4Groups(s, pos, i) ==
    IF i = 4 THEN pos
    ELSE LET p == ReadSeparator(s, pos, ".", i)
             g == ReadNumber(s, p, 10, 3, FALSE, U8Max)
         IN  IF p = 0 \/ ~g.ok THEN 0 ELSE ReadIpv4Groups(s, g.pos, i + 1)

ReadIpv4Addr(s, pos) == ReadIpv4Groups(s, pos, 0)

\* Parser::read_port: ':' and a u16 in decimal (zero prefix allowed).
ReadPort(s, pos) ==
    LET p == ReadGivenChar(s, pos, ":")
    IN  IF p = 0 THEN Fail ELSE ReadNumber(s, p, 10, 0, TRUE, U16Max)

\* read_groups of Parser::read_ipv6_addr: up to limit 16-bit groups separated by
\* ':', the last two of which may be an embedded IPv4 address. size is the
\* number of groups read, pos the position after them.
RECURSIVE ReadGroups(_, _, _, _)

\* Group i as a hexadecimal number g of at most four digits.
GroupsNumber(s, pos, i, limit, g) ==
    IF g.ok THEN ReadGroups(s, g.pos, i + 1, limit)
    ELSE [size |-> i, ipv4 |-> FALSE, pos |-> pos]

\* Group i after its separator, at p: an embedded IPv4 address ending at v4 if
\* there is one (and room for its two groups), else a hexadecimal group.
GroupsEmbedded(s, pos, p, i, limit, v4) ==
    IF v4 # 0 THEN [size |-> i + 2, ipv4 |-> TRUE, pos |-> v4]
    ELSE GroupsNumber(s, pos, i, limit, ReadNumber(s, p, 16, 4, TRUE, U16Max))

GroupsAt(s, pos, p, i, limit) ==
    IF p = 0 THEN [size |-> i, ipv4 |-> FALSE, pos |-> pos]
    ELSE GroupsEmbedded(s, pos, p, i, limit,
                        IF i < limit - 1 THEN ReadIpv4Addr(s, p) ELSE 0)

ReadGroups(s, pos, i, limit) ==
    IF i >= limit THEN [size |-> limit, ipv4 |-> FALSE, pos |-> pos]
    ELSE GroupsAt(s, pos, ReadSeparator(s, pos, ":", i), i, limit)

\* Parser::read_ipv6_addr after "::": the tail of at most limit groups.
Ipv6Tail(s, afterColons, limit) ==
    IF afterColons = 0 THEN 0 ELSE ReadGroups(s, afterColons, 0, limit).pos

\* Parser::read_ipv6_addr after the head: all eight groups read, or else "::"
\* (not after an embedded IPv4 address) and the tail.
Ipv6AfterHead(s, head) ==
    IF head.size = 8 THEN head.pos
    ELSE IF head.ipv4 THEN 0
    ELSE Ipv6Tail(s, ReadGivenChar(s, ReadGivenChar(s, head.pos, ":"), ":"),
                  8 - (head.size + 1))

\* Parser::read_ipv6_addr: eight groups, or a head, "::" and a tail of fewer.
\* Returns the position after it, or 0.
ReadIpv6Addr(s, pos) == Ipv6AfterHead(s, ReadGroups(s, pos, 0, 8))

\* The scope id read at pos, if any: its end, or pos itself.
ScopeIdEnd(pos, n) == IF n.ok THEN n.pos ELSE pos

\* Parser::read_scope_id: '%' and a u32 in decimal; the position is unchanged
\* when there is none (read_scope_id().unwrap_or(0)).
ReadScopeId(s, pos) ==
    IF ReadGivenChar(s, pos, "%") = 0 THEN pos
    ELSE ScopeIdEnd(pos, ReadNumberU32(s, pos + 1))

\* Parser::read_socket_addr_v4: ipv4 ':' port.
PortAfter(s, pos) == IF pos = 0 THEN Fail ELSE ReadPort(s, pos)

ReadSocketAddrV4(s) == PortAfter(s, ReadIpv4Addr(s, 1))

\* Parser::read_socket_addr_v6: '[' ipv6 [%scope] ']' ':' port.
ScopeAfter(s, pos) == IF pos = 0 THEN 0 ELSE ReadGivenChar(s, ReadScopeId(s, pos), "]")

ReadSocketAddrV6(s) ==
    IF ReadGivenChar(s, 1, "[") = 0 THEN Fail
    ELSE PortAfter(s, ScopeAfter(s, ReadIpv6Addr(s, 2)))

\* Parser::parse_with: the result stands only if it took up the whole string.
WholeInput(s, r) == IF r.ok /\ r.pos = Len(s) + 1 THEN r ELSE Fail

\* read_socket_addr: the v4 reading if there is one, else the v6 reading.
V4OrElseV6(s, v4) == IF v4.ok THEN v4 ELSE ReadSocketAddrV6(s)

\* <SocketAddr as FromStr>::from_str: a v4 or a v6 socket address that takes up
\* the whole string. val is the port.
ParseSocketAddr(s) == WholeInput(s, V4OrElseV6(s, ReadSocketAddrV4(s)))

\* str::split_once(":"): the text before and after the first ':'.
RECURSIVE FindChar(_, _, _)
FindChar(s, pos, c) ==
    IF pos > Len(s) THEN 0
    ELSE IF s[pos] = c THEN pos
    ELSE FindChar(s, pos + 1, c)

SplitOnce(s, c) ==
    LET at == FindChar(s, 1, c)
    IN  IF at = 0 THEN [some |-> FALSE, before |-> <<>>, after |-> <<>>]
        ELSE [some |-> TRUE, before |-> SubSeq(s, 1, at - 1),
              after |-> SubSeq(s, at + 1, Len(s))]

\* str::parse::<i32>(): an optional sign and at least one decimal digit, nothing
\* else, the value within i32.
ParseI32(s) ==
    LET signed   == Len(s) >= 1 /\ s[1] \in {"+", "-"}
        negative == signed /\ s[1] = "-"
        start    == IF signed THEN 2 ELSE 1
        n        == DigitRun(s, start, 10)
        err      == [ok |-> FALSE, val |-> 0]
    IN  IF n = 0 \/ start + n # Len(s) + 1 THEN err
        ELSE IF negative
        THEN IF FitsWide(s, start, n, I32MinDiv10, I32MinMod10)
             THEN [ok |-> TRUE,
                   val |-> 0 - CheckedValue(s, start, n - 1, 10, I32MinDiv10) * 10
                             - ToDigit(s[start + n - 1], 10)]
             ELSE err
        ELSE IF CheckedValue(s, start, n, 10, I32Max) = -1 THEN err
        ELSE [ok |-> TRUE, val |-> CheckedValue(s, start, n, 10, I32Max)]

\* ------------------------------------------------------------------------
\* Errors and results
\* ------------------------------------------------------------------------

\* enum EzError { IO, Env(VarError, String), Parse, LocalIP, Other(String) }
EzError(variant, detail) == [variant |-> variant, detail |-> detail]

EnvError(name) == EzError("Env", name)
ParseError == EzError("Parse", "invalid socket address syntax")
LocalIPError == EzError("LocalIP", "local ip address not found")
OtherError(msg) == EzError("Other", msg)

NoError == EzError("", "")

Ok(v) == [ok |-> TRUE, val |-> v, err |-> NoError]
Err(e, dflt) == [ok |-> FALSE, val |-> dflt, err |-> e]

\* ------------------------------------------------------------------------
\* Program constants
\* ------------------------------------------------------------------------

META_GRPC_PORT == "gRPC_port"
DEFAULT_GROUP == "DEFAULT_GROUP"
\* weight: 1.0
DefaultWeight == 1

EnvNames == {"NACOS_ADDR", "NACOS_NAMESPACE", "SERVICE_ADDR", "SERVICE_NAME",
             "SERVICE_HOST"}

\* ------------------------------------------------------------------------
\* Inputs of the model
\* ------------------------------------------------------------------------

Addr_127_0_0_1_8848 == <<"1","2","7",".","0",".","0",".","1",":","8","8","4","8">>
Addr_127_0_0_1_8080 == <<"1","2","7",".","0",".","0",".","1",":","8","0","8","0">>
Addr_127_0_0_1      == <<"1","2","7",".","0",".","0",".","1">>
Addr_not_an_address == <<"n","o","t","-","a","n","-","a","d","d","r","e","s","s">>
Addr_10_0_0_5_9000  == <<"1","0",".","0",".","0",".","5",":","9","0","0","0">>
Addr_192_168_1_10_50051 ==
    <<"1","9","2",".","1","6","8",".","1",".","1","0",":","5","0","0","5","1">>
Addr_v6_loopback_8080 == <<"[",":",":","1","]",":","8","0","8","0">>
Addr_10_0_0_5_09000 == <<"1","0",".","0",".","0",".","5",":","0","9","0","0","0">>

OptRegistryAddrs == {NoneAddr, Some(Addr_127_0_0_1_8848), Some(Addr_not_an_address)}
EnvRegistryAddrs == {NoneAddr, Some(Addr_127_0_0_1_8080), Some(Addr_127_0_0_1)}
OptServiceAddrs  == {NoneAddr, Some(Addr_10_0_0_5_9000), Some(Addr_v6_loopback_8080),
                     Some(Addr_127_0_0_1)}
EnvServiceAddrs  == {NoneAddr, Some(Addr_192_168_1_10_50051),
                     Some(Addr_10_0_0_5_09000), Some(Addr_v6_loopback_8080),
                     Some(Addr_not_an_address)}
OptNamespaces    == {NoneStr, Some("public")}
EnvNamespaces    == {NoneStr, Some("dev")}
OptServiceNames  == {NoneStr, Some("order-svc")}
EnvServiceNames  == {NoneStr, Some("env-svc")}
OptServiceHosts  == {NoneStr, Some("10.1.1.1")}
EnvServiceHosts  == {NoneStr, Some("10.2.2.2")}
\* local_ip(): the machine's address, or None when detection fails.
LocalIps         == {NoneStr, Some("192.168.0.7")}

\* ServeOptions::default()
DefaultServeOptions ==
    [addr |-> NoneAddr, namespace |-> NoneStr, service_addr |-> NoneAddr,
     service_name |-> NoneStr, service_host |-> NoneStr]

\* ------------------------------------------------------------------------
\* get_env, parse_addr
\* ------------------------------------------------------------------------

\* get_env with the error naming a fixed variable instead of the one asked for.
get_env_WrongName(e, name) ==
    IF e[name].some THEN Ok(e[name].val) ELSE Err(EnvError("NACOS_ADDR"), e[name].val)

\* get_env(name): the variable's value, or EzError::Env naming it.
get_env(e, name) ==
    IF e[name].some THEN Ok(e[name].val) ELSE Err(EnvError(name), e[name].val)

\* parse_addr(addr): addr itself when it parses as a SocketAddr.
parse_addr(addr) ==
    IF ParseSocketAddr(addr).ok THEN Ok(addr) ELSE Err(ParseError, addr)

\* ------------------------------------------------------------------------
\* ServiceManager::new
\* ------------------------------------------------------------------------

\* FieldOrEnv with the priority reversed: the environment variable, when set,
\* overrides the field of the options.
FieldOrEnv_EnvFirst(field, e, name) ==
    IF e[name].some THEN [res |-> Ok(e[name].val), reads |-> <<name>>]
    ELSE IF field.some THEN [res |-> Ok(field.val), reads |-> <<name>>]
    ELSE [res |-> Err(EnvError(name), e[name].val), reads |-> <<name>>]

\* A field of the options, or else the environment variable `name`: the value
\* and the variables read for it.
FieldOrEnv(field, e, name) ==
    IF field.some THEN [res |-> Ok(field.val), reads |-> <<>>]
    ELSE [res |-> get_env(e, name), reads |-> <<name>>]

\* expr? followed by parse_addr(..): parse_addr of the value unless f failed.
ThenParseAddr(f) ==
    IF f.res.ok THEN [res |-> parse_addr(f.res.val), reads |-> f.reads] ELSE f

\* let addr = parse_addr(match opt.addr { Some(a) => a, None => get_env(..)? })?
ResolveAddr(o, e) == ThenParseAddr(FieldOrEnv(o.addr, e, "NACOS_ADDR"))

ResolveNamespace(o, e) == FieldOrEnv(o.namespace, e, "NACOS_NAMESPACE")

\* ResolveServiceAddr with the value of SERVICE_ADDR taken without validation.
ResolveServiceAddr_EnvUnchecked(o, e) ==
    IF o.service_addr.some
    THEN ThenParseAddr([res |-> parse_addr(o.service_addr.val), reads |-> <<>>])
    ELSE [res |-> get_env(e, "SERVICE_ADDR"), reads |-> <<"SERVICE_ADDR">>]

\* let service_addr = parse_addr(match opt.service_addr {
\*     Some(a) => parse_addr(a)?, None => get_env("SERVICE_ADDR")? })?
ResolveServiceAddr(o, e) ==
    IF o.service_addr.some
    THEN ThenParseAddr([res |-> parse_addr(o.service_addr.val), reads |-> <<>>])
    ELSE ThenParseAddr([res |-> get_env(e, "SERVICE_ADDR"),
                        reads |-> <<"SERVICE_ADDR">>])

ResolveServiceName(o, e) == FieldOrEnv(o.service_name, e, "SERVICE_NAME")

\* get_env("SERVICE_HOST").unwrap_or(local_ip)
EnvHostOr(g, ip) == IF g.ok THEN g.val ELSE ip

\* opt.service_host.unwrap_or_else(|| get_env("SERVICE_HOST").unwrap_or(local_ip))
ResolveServiceHost(o, e, ip) ==
    IF o.service_host.some THEN [val |-> o.service_host.val, reads |-> <<>>]
    ELSE [val |-> EnvHostOr(get_env(e, "SERVICE_HOST"), ip),
          reads |-> <<"SERVICE_HOST">>]

\* BuildInstance with the port number, not its text, left out of the metadata
\* value: the annotation carries the host instead.
BuildInstance_HostInMetadata(service_host, portNumber, portText) ==
    [ip |-> service_host, port |-> portNumber, weight |-> DefaultWeight,
     healthy |-> TRUE, enabled |-> TRUE, ephemeral |-> TRUE,
     metadata |-> (META_GRPC_PORT :> <<service_host>>)]

\* ServiceInstance { ip, port, weight: 1.0, healthy: true, enabled: true,
\*                   ephemeral: true, metadata: {gRPC_port: port} }
BuildInstance(service_host, portNumber, portText) ==
    [ip |-> service_host, port |-> portNumber, weight |-> DefaultWeight,
     healthy |-> TRUE, enabled |-> TRUE, ephemeral |-> TRUE,
     metadata |-> (META_GRPC_PORT :> portText)]

NewErr(e, reads) ==
    [outcome |-> "Err", err |-> e, manager |-> <<>>, reads |-> reads]

NewPanic(reads) ==
    [outcome |-> "Panic", err |-> NoError, manager |-> <<>>, reads |-> reads]

NewOk(m, reads) ==
    [outcome |-> "Ok", err |-> NoError, manager |-> <<m>>, reads |-> reads]

\* ServiceManager::new, lines 119-133: port.parse::<i32>().unwrap(), the
\* instance and the manager. c holds the values resolved so far.
NewInstance(c, portText, num) ==
    IF ~num.ok THEN NewPanic(c.reads)
    ELSE NewOk([naming_service |-> [server_addr |-> c.addr,
                                    namespace |-> c.namespace],
                service_instance |-> BuildInstance(c.service_host, num.val, portText),
                service_name |-> c.service_name], c.reads)

\* lines 113-116: service_addr.split_once(":")
NewSplit(c, sp) ==
    IF ~sp.some THEN NewErr(OtherError("Invalid service address"), c.reads)
    ELSE NewInstance(c, sp.after, ParseI32(sp.after))

\* lines 107-112: NamingServiceBuilder::new(props).build()
NewBuild(c, buildOk) ==
    IF ~buildOk THEN NewErr(OtherError("NamingService create failed"), c.reads)
    ELSE NewSplit(c, SplitOnce(c.service_addr, ":"))

\* line 101: service_host
NewHost(c, buildOk, sh) ==
    NewBuild([addr |-> c.addr, namespace |-> c.namespace,
              service_addr |-> c.service_addr, service_name |-> c.service_name,
              service_host |-> sh.val, reads |-> c.reads \o sh.reads], buildOk)

\* line 100: let local_ip = local_ip()?.to_string();
NewLocalIp(o, e, lip, buildOk, c) ==
    IF ~lip.some THEN NewErr(LocalIPError, c.reads)
    ELSE NewHost(c, buildOk, ResolveServiceHost(o, e, lip.val))

\* lines 96-99: service_name
NewServiceName(o, e, lip, buildOk, c, sn) ==
    IF ~sn.res.ok THEN NewErr(sn.res.err, c.reads \o sn.reads)
    ELSE NewLocalIp(o, e, lip, buildOk,
                    [addr |-> c.addr, namespace |-> c.namespace,
                     service_addr |-> c.service_addr, service_name |-> sn.res.val,
                     reads |-> c.reads \o sn.reads])

\* lines 92-95: service_addr
NewServiceAddr(o, e, lip, buildOk, c, sa) ==
    IF ~sa.res.ok THEN NewErr(sa.res.err, c.reads \o sa.reads)
    ELSE NewServiceName(o, e, lip, buildOk,
                        [addr |-> c.addr, namespace |-> c.namespace,
                         service_addr |-> sa.res.val, reads |-> c.reads \o sa.reads],
                        ResolveServiceName(o, e))

\* lines 88-91: namespace
NewNamespace(o, e, lip, buildOk, c, ns) ==
    IF ~ns.res.ok THEN NewErr(ns.res.err, c.reads \o ns.reads)
    ELSE NewServiceAddr(o, e, lip, buildOk,
                        [addr |-> c.addr, namespace |-> ns.res.val,
                         reads |-> c.reads \o ns.reads],
                        ResolveServiceAddr(o, e))

\* lines 84-87: addr
NewAddr(o, e, lip, buildOk, a) ==
    IF ~a.res.ok THEN NewErr(a.res.err, a.reads)
    ELSE NewNamespace(o, e, lip, buildOk, [addr |-> a.res.val, reads |-> a.reads],
                      ResolveNamespace(o, e))

\* ServiceManager::new(opt) in environment e, on a machine whose local_ip() gives
\* lip, with NamingServiceBuilder::build() succeeding or not (buildOk). Each
\* step returns at its first error (the ? operator).
ServiceManagerNew(o, e, lip, buildOk) ==
    NewAddr(o, e, lip, buildOk, ResolveAddr(o, e))

\* ------------------------------------------------------------------------
\* online / offline
\* ------------------------------------------------------------------------

\* The call online() hands to NamingService::register_instance.
RegisterCall(m) ==
    [op |-> "register", service_name |-> m.service_name, group |-> DEFAULT_GROUP,
     instance |-> m.service_instance]

\* DeregisterCall with no group given (None) instead of DEFAULT_GROUP.
DeregisterCall_NoGroup(m) ==
    [op |-> "deregister", service_name |-> m.service_name, group |-> "",
     instance |-> m.service_instance]

\* The call offline() hands to NamingService::deregister_instance.
DeregisterCall(m) ==
    [op |-> "deregister", service_name |-> m.service_name, group |-> DEFAULT_GROUP,
     instance |-> m.service_instance]

OkUnit == [ok |-> TRUE, err |-> NoError]

\* online()'s result when the registry client answers clientOk.
OnlineResult(clientOk) ==
    IF clientOk THEN OkUnit
    ELSE [ok |-> FALSE, err |-> OtherError("Service online error")]

\* OfflineResult with online()'s error message.
OfflineResult_OnlineMessage(clientOk) ==
    IF clientOk THEN OkUnit
    ELSE [ok |-> FALSE, err |-> OtherError("Service online error")]

\* offline()'s result when the registry client answers clientOk.
OfflineResult(clientOk) ==
    IF clientOk THEN OkUnit
    ELSE [ok |-> FALSE, err |-> OtherError("Service offline error")]

\* ------------------------------------------------------------------------
\* State
\* ------------------------------------------------------------------------

VARIABLES
    opt,        \* the ServeOptions handed to ServiceManager::new
    env,        \* the process environment: variable name -> Option<String>
    local_ip,   \* what local_ip() gives on this machine
    pc,         \* "start", then "constructed", "failed" or "panicked"
    newResult,  \* <<>> before new() returned, then <<its result>>
    manager,    \* <<>>, or <<the ServiceManager>> once constructed
    envReads,   \* the environment variables new() read, in order
    calls,      \* the calls handed to the registry client, in order
    history,    \* the online()/offline() calls made on the manager, in order:
                \* the method, the registry client's answer, the result returned
    mainPc,     \* position of the example program's main
    exit,       \* how the example program ended: "", "ok", "error", "exit1", "panic"
    exitErr     \* the error main returned, when exit = "error"

vars == <<opt, env, local_ip, pc, newResult, manager, envReads, calls, history,
          mainPc, exit, exitErr>>

Environments ==
    {[n \in EnvNames |->
        CASE n = "NACOS_ADDR"      -> a
          [] n = "NACOS_NAMESPACE" -> ns
          [] n = "SERVICE_ADDR"    -> sa
          [] n = "SERVICE_NAME"    -> sn
          [] n = "SERVICE_HOST"    -> sh] :
        a \in EnvRegistryAddrs, ns \in EnvNamespaces, sa \in EnvServiceAddrs,
        sn \in EnvServiceNames, sh \in EnvServiceHosts}

Options ==
    [addr : OptRegistryAddrs, namespace : OptNamespaces,
     service_addr : OptServiceAddrs, service_name : OptServiceNames,
     service_host : OptServiceHosts]

InitCommon ==
    /\ env \in Environments
    /\ local_ip \in LocalIps
    /\ pc = "start"
    /\ newResult = <<>>
    /\ manager = <<>>
    /\ envReads = <<>>
    /\ calls = <<>>
    /\ history = <<>>
    /\ mainPc = "new"
    /\ exit = ""
    /\ exitErr = NoError

Init ==
    /\ opt \in Options
    /\ InitCommon

\* ------------------------------------------------------------------------
\* The library's operations
\* ------------------------------------------------------------------------

\* ServiceManager::new(opt)
NewReturns(r) ==
    /\ newResult' = <<r>>
    /\ manager' = r.manager
    /\ envReads' = r.reads
    /\ pc' = CASE r.outcome = "Ok"  -> "constructed"
               [] r.outcome = "Err" -> "failed"
               [] OTHER             -> "panicked"

NewCall ==
    /\ pc = "start"
    /\ \E buildOk \in BOOLEAN :
         NewReturns(ServiceManagerNew(opt, env, local_ip, buildOk))
    /\ UNCHANGED <<opt, env, local_ip, calls, history>>

\* OnlineCall with one retry: a failed register call is made a second time.
OnlineCall_Retry(clientOk) ==
    /\ pc = "constructed"
    /\ calls' = IF clientOk THEN Append(calls, RegisterCall(manager[1]))
                ELSE calls \o <<RegisterCall(manager[1]), RegisterCall(manager[1])>>
    /\ history' = Append(history, [method |-> "online", clientOk |-> clientOk,
                                    result |-> OnlineResult(clientOk)])
    /\ manager' = manager
    /\ UNCHANGED <<opt, env, local_ip, pc, newResult, envReads>>

\* manager.online(), the registry client answering clientOk
OnlineCall(clientOk) ==
    /\ pc = "constructed"
    /\ calls' = Append(calls, RegisterCall(manager[1]))
    /\ history' = Append(history, [method |-> "online", clientOk |-> clientOk,
                                    result |-> OnlineResult(clientOk)])
    /\ manager' = manager
    /\ UNCHANGED <<opt, env, local_ip, pc, newResult, envReads>>

\* manager.offline(), the registry client answering clientOk
OfflineCall(clientOk) ==
    /\ pc = "constructed"
    /\ calls' = Append(calls, DeregisterCall(manager[1]))
    /\ history' = Append(history, [method |-> "offline", clientOk |-> clientOk,
                                    result |-> OfflineResult(clientOk)])
    /\ manager' = manager
    /\ UNCHANGED <<opt, env, local_ip, pc, newResult, envReads>>

\* A caller of the library: new(), then online() and offline() in any order.
New == NewCall /\ UNCHANGED <<mainPc, exit, exitErr>>

Online ==
    /\ Len(calls) < MaxCalls
    /\ \E clientOk \in BOOLEAN : OnlineCall(clientOk)
    /\ UNCHANGED <<mainPc, exit, exitErr>>

Offline ==
    /\ Len(calls) < MaxCalls
    /\ \E clientOk \in BOOLEAN : OfflineCall(clientOk)
    /\ UNCHANGED <<mainPc, exit, exitErr>>

Next == New \/ Online \/ Offline

Spec == Init /\ [][Next]_vars

\* Construction alone: ServiceManager::new on every input of the model.
NextNew == New

SpecNew == Init /\ [][NextNew]_vars

\* ------------------------------------------------------------------------
\* The example program (examples/grpc_service.rs)
\* ------------------------------------------------------------------------

InitMain ==
    /\ opt = DefaultServeOptions
    /\ InitCommon

\* let manager = ServiceManager::new(ServeOptions::default())?;
MainNew ==
    /\ mainPc = "new"
    /\ NewCall
    /\ mainPc' = IF pc' = "constructed" THEN "online" ELSE "ended"
    /\ exit' = CASE pc' = "constructed" -> ""
                 [] pc' = "failed"      -> "error"
                 [] OTHER               -> "panic"
    /\ exitErr' = newResult'[1].err

\* MainOnline without the exit: a failed online() is only printed.
MainOnline_NoExit ==
    /\ mainPc = "online"
    /\ \E clientOk \in BOOLEAN :
         /\ OnlineCall(clientOk)
         /\ mainPc' = "offline"
         /\ exit' = ""
         /\ exitErr' = exitErr

\* if let Err(e) = manager.online() { println!(..); std::process::exit(1); }
MainOnline ==
    /\ mainPc = "online"
    /\ \E clientOk \in BOOLEAN :
         /\ OnlineCall(clientOk)
         /\ mainPc' = IF clientOk THEN "offline" ELSE "ended"
         /\ exit' = IF clientOk THEN "" ELSE "exit1"
         /\ exitErr' = exitErr

\* sleep(30 s); manager.offline()?; Ok(())
MainOffline ==
    /\ mainPc = "offline"
    /\ \E clientOk \in BOOLEAN :
         /\ OfflineCall(clientOk)
         /\ mainPc' = "ended"
         /\ exit' = IF clientOk THEN "ok" ELSE "error"
         /\ exitErr' = OfflineResult(clientOk).err

NextMain == MainNew \/ MainOnline \/ MainOffline

SpecMain == InitMain /\ [][NextMain]_vars

\* ------------------------------------------------------------------------
\* What the properties speak of
\* ------------------------------------------------------------------------

\* new() has returned (or panicked); Result is what it gave.
Returned == newResult # <<>>
Result == newResult[1]
Constructed == pc = "constructed"

\* The fields new() cannot do without, in the order it resolves them, and the
\* environment variable standing in for each.
RequiredFields == <<"addr", "namespace", "service_addr", "service_name">>
AddressFields == {"addr", "service_addr"}
VarOf ==
    [addr |-> "NACOS_ADDR", namespace |-> "NACOS_NAMESPACE",
     service_addr |-> "SERVICE_ADDR", service_name |-> "SERVICE_NAME",
     service_host |-> "SERVICE_HOST"]

\* The value a field is given: by the options, else by its variable.
Given(f) == IF opt[f].some THEN opt[f] ELSE env[VarOf[f]]

\* The field is given a value, and a valid socket address where it is one.
IsSocketAddr(s) == ParseSocketAddr(s).ok
FieldGood(f) == Given(f).some /\ (f \in AddressFields => IsSocketAddr(Given(f).val))

\* Resolution gets as far as the k-th required field: those before it are good.
Reached(k) == \A j \in 1..(k - 1) : FieldGood(RequiredFields[j])

\* The variables of the required fields that new() read, in order.
RequiredReads == SelectSeq(envReads, LAMBDA n : n # "SERVICE_HOST")

ReadFor(k) ==
    IF Reached(k) /\ ~opt[RequiredFields[k]].some
    THEN <<VarOf[RequiredFields[k]]>> ELSE <<>>

\* The text of an address after its last ':'.
RECURSIVE LastChar(_, _, _)
LastChar(s, pos, c) ==
    IF pos = 0 THEN 0 ELSE IF s[pos] = c THEN pos ELSE LastChar(s, pos - 1, c)

PortTextOf(s) == SubSeq(s, LastChar(s, Len(s), ":") + 1, Len(s))

IsEzError(r, variant) == r.outcome = "Err" /\ r.err.variant = variant

\* ------------------------------------------------------------------------
\* C1
\* ------------------------------------------------------------------------

\* C1: every register and deregister call handed to the registry client carries
\* the triple (service_name, DEFAULT_GROUP, service_instance) fixed when the
\* manager was constructed, so any two calls, and in particular an online()
\* followed by an offline(), carry equal triples.
C1_SameTriple ==
    /\ \A i \in 1..Len(calls) :
         /\ calls[i].op \in {"register", "deregister"}
         /\ calls[i].service_name = Result.manager[1].service_name
         /\ calls[i].group = DEFAULT_GROUP
         /\ calls[i].instance = Result.manager[1].service_instance
    /\ \A i \in 1..(Len(calls) - 1) :
         (calls[i].op = "register" /\ calls[i + 1].op = "deregister")
         => /\ calls[i].service_name = calls[i + 1].service_name
            /\ calls[i].group = calls[i + 1].group
            /\ calls[i].instance = calls[i + 1].instance

\* online() immediately followed by offline().
C1_Witness ==
    /\ Len(calls) >= 2
    /\ calls[1].op = "register"
    /\ calls[2].op = "deregister"

\* ------------------------------------------------------------------------
\* C2
\* ------------------------------------------------------------------------

\* C2: when the registry client fails, online() returns an error value for
\* registration and offline() one for deregistration, the two differ, the
\* program goes on (no panic), and the manager is what new() built.
C2_FailureReturnsError ==
    /\ history # <<>> => (pc = "constructed" /\ manager = Result.manager)
    /\ \A i \in 1..Len(history) :
         ~history[i].clientOk =>
            /\ ~history[i].result.ok
            /\ history[i].result.err.variant = "Other"
            /\ history[i].method = "online"
               => history[i].result.err.detail = "Service online error"
            /\ history[i].method = "offline"
               => history[i].result.err.detail = "Service offline error"
    /\ \A i, j \in 1..Len(history) :
         (~history[i].clientOk /\ ~history[j].clientOk
          /\ history[i].method # history[j].method)
         => history[i].result # history[j].result

\* A failed online() and a failed offline() on one manager.
C2_Witness ==
    /\ Len(history) >= 2
    /\ history[1].method = "online" /\ ~history[1].clientOk
    /\ history[2].method = "offline" /\ ~history[2].clientOk

\* ------------------------------------------------------------------------
\* C3
\* ------------------------------------------------------------------------

\* C3: new() never crashes on a service address: it returns Ok or an error
\* value, also for an address that is a valid socket address but has more than
\* one ':' (as "[::1]:8080").
C3_NewNeverPanics ==
    Returned => Result.outcome \in {"Ok", "Err"}

\* ------------------------------------------------------------------------
\* C4
\* ------------------------------------------------------------------------

\* The published host by priority: the options, SERVICE_HOST, the local IP.
HostByPriority ==
    IF opt.service_host.some THEN opt.service_host.val
    ELSE IF env["SERVICE_HOST"].some THEN env["SERVICE_HOST"].val
    ELSE local_ip.val

\* C4: the instance's ip is the host resolved by priority (options, then
\* SERVICE_HOST, then the detected local IP), and new() returns a LocalIP error
\* only when the host comes from neither the options nor the environment and
\* local-IP detection fails.
C4_HostResolution ==
    /\ Constructed => manager[1].service_instance.ip = HostByPriority
    /\ (Returned /\ IsEzError(Result, "LocalIP"))
       => (~opt.service_host.some /\ ~env["SERVICE_HOST"].some /\ ~local_ip.some)

\* ------------------------------------------------------------------------
\* C5
\* ------------------------------------------------------------------------

AllSupplied ==
    /\ opt.addr.some /\ opt.namespace.some /\ opt.service_addr.some
    /\ opt.service_name.some /\ opt.service_host.some

\* C5: with every field of ServeOptions supplied, new() reads no environment
\* variable, and the values it resolves are the supplied ones whatever the
\* environment holds.
C5_ExplicitOptionsIgnoreEnv ==
    (Returned /\ AllSupplied) =>
       /\ envReads = <<>>
       /\ ~IsEzError(Result, "Env")
       /\ Constructed =>
            /\ manager[1].naming_service.server_addr = opt.addr.val
            /\ manager[1].naming_service.namespace = opt.namespace.val
            /\ manager[1].service_name = opt.service_name.val
            /\ manager[1].service_instance.ip = opt.service_host.val
            /\ manager[1].service_instance.metadata[META_GRPC_PORT]
                 = PortTextOf(opt.service_addr.val)

\* A manager built from fully supplied options while every variable is set.
C5_Witness ==
    /\ Constructed
    /\ AllSupplied
    /\ \A n \in EnvNames : env[n].some

\* ------------------------------------------------------------------------
\* C6
\* ------------------------------------------------------------------------

\* C6 as stated: for each required field omitted from the options, new() reads
\* the corresponding variable and uses its value, and if the variable is not set
\* new() returns an Env error naming that variable and builds no manager.
C6_EachOmittedFieldRead ==
    Returned =>
       \A k \in 1..Len(RequiredFields) :
          ~opt[RequiredFields[k]].some =>
             /\ \E i \in 1..Len(envReads) : envReads[i] = VarOf[RequiredFields[k]]
             /\ ~env[VarOf[RequiredFields[k]]].some
                => /\ Result.outcome = "Err"
                   /\ Result.err = EnvError(VarOf[RequiredFields[k]])
                   /\ manager = <<>>

\* C6 amended: new() resolves addr, namespace, service_addr and service_name in
\* that order and returns at the first failure. For each required field that is
\* omitted and that resolution reaches, it reads exactly the corresponding
\* variable and uses its value; if that variable is not set it returns an Env
\* error naming it and builds no manager. The variable of a field that
\* resolution does not reach is not read.
C6_OmittedFieldsReadInOrder ==
    Returned =>
       /\ RequiredReads = ReadFor(1) \o ReadFor(2) \o ReadFor(3) \o ReadFor(4)
       /\ \A k \in 1..Len(RequiredFields) :
            (Reached(k) /\ ~opt[RequiredFields[k]].some
             /\ ~env[VarOf[RequiredFields[k]]].some)
            => /\ Result.outcome = "Err"
               /\ Result.err = EnvError(VarOf[RequiredFields[k]])
               /\ manager = <<>>
       /\ Constructed =>
            /\ ~opt.addr.some
               => manager[1].naming_service.server_addr = env["NACOS_ADDR"].val
            /\ ~opt.namespace.some
               => manager[1].naming_service.namespace = env["NACOS_NAMESPACE"].val
            /\ ~opt.service_addr.some
               => manager[1].service_instance.metadata[META_GRPC_PORT]
                    = PortTextOf(env["SERVICE_ADDR"].val)
            /\ ~opt.service_name.some
               => manager[1].service_name = env["SERVICE_NAME"].val

\* The registry address read from NACOS_ADDR, then NACOS_NAMESPACE found unset.
C6_Witness ==
    /\ Returned
    /\ ~opt.addr.some /\ FieldGood("addr")
    /\ ~opt.namespace.some /\ ~env["NACOS_NAMESPACE"].some
    /\ envReads = <<"NACOS_ADDR", "NACOS_NAMESPACE">>
    /\ Result.err = EnvError("NACOS_NAMESPACE")

\* ------------------------------------------------------------------------
\* C7
\* ------------------------------------------------------------------------

\* C7 as stated: for every registry address and every service address, from
\* the options or the environment, that is no socket address, new() returns a
\* Parse error and builds no manager; an address that parses is passed on
\* unchanged.
C7_BadAddressGivesParseError ==
    Returned =>
       /\ \A f \in AddressFields :
            (Given(f).some /\ ~IsSocketAddr(Given(f).val))
            => (IsEzError(Result, "Parse") /\ manager = <<>>)
       /\ Constructed => manager[1].naming_service.server_addr = Given("addr").val

\* C7 amended: a registry address, from the options or the environment, that is
\* no socket address makes new() return a Parse error; a service address that
\* is none makes new() return a Parse error provided the registry address and
\* the namespace resolved (otherwise new() returns the error of that earlier
\* step); in both cases no manager is built. An address that parses is passed
\* on unchanged.
C7_BadAddressRejected ==
    Returned =>
       /\ (Given("addr").some /\ ~IsSocketAddr(Given("addr").val))
          => (IsEzError(Result, "Parse") /\ manager = <<>>)
       /\ (Given("service_addr").some /\ ~IsSocketAddr(Given("service_addr").val))
          => /\ Result.outcome = "Err"
             /\ manager = <<>>
             /\ Reached(3) => IsEzError(Result, "Parse")
             /\ ~Given("addr").some => Result.err = EnvError("NACOS_ADDR")
             /\ (Given("addr").some /\ ~FieldGood("addr")) => IsEzError(Result, "Parse")
             /\ (FieldGood("addr") /\ ~Given("namespace").some)
                => Result.err = EnvError("NACOS_NAMESPACE")
       /\ Constructed =>
            /\ IsSocketAddr(Given("addr").val)
            /\ IsSocketAddr(Given("service_addr").val)
            /\ manager[1].naming_service.server_addr = Given("addr").val

\* A service address from the environment that is no socket address, reached.
C7_Witness ==
    /\ Returned
    /\ Reached(3)
    /\ ~opt.service_addr.some
    /\ env["SERVICE_ADDR"].some /\ ~IsSocketAddr(env["SERVICE_ADDR"].val)
    /\ IsEzError(Result, "Parse")

\* ------------------------------------------------------------------------
\* C8
\* ------------------------------------------------------------------------

\* C8: on success the instance's port is the integer value of the service
\* address's port, metadata["gRPC_port"] is the port's text, weight is 1.0 and
\* healthy, enabled and ephemeral are true.
C8_InstanceFields ==
    Constructed =>
       /\ manager[1].service_instance.port
            = ParseSocketAddr(Given("service_addr").val).val
       /\ manager[1].service_instance.metadata[META_GRPC_PORT]
            = PortTextOf(Given("service_addr").val)
       /\ manager[1].service_instance.weight = 1
       /\ manager[1].service_instance.healthy
       /\ manager[1].service_instance.enabled
       /\ manager[1].service_instance.ephemeral

\* service_addr "10.0.0.5:9000": port 9000 and metadata["gRPC_port"] = "9000".
C8_Witness ==
    /\ Constructed
    /\ Given("service_addr").val = Addr_10_0_0_5_9000
    /\ manager[1].service_instance.port = 9000
    /\ manager[1].service_instance.metadata[META_GRPC_PORT] = <<"9", "0", "0", "0">>

\* ------------------------------------------------------------------------
\* C9
\* ------------------------------------------------------------------------

\* C9: each online() issues exactly one register call and each offline()
\* exactly one deregister call, whatever came before (no online/offline state,
\* no retry), and a failure of the client is returned at once as an error.
C9_OneCallPerOperation ==
    /\ Len(calls) = Len(history)
    /\ \A i \in 1..Len(history) :
         /\ i <= Len(calls)
         /\ history[i].method = "online" => calls[i].op = "register"
         /\ history[i].method = "offline" => calls[i].op = "deregister"
         /\ history[i].result.ok = history[i].clientOk

\* offline() before any online(), then online() twice, the first one failing.
C9_Witness ==
    /\ Len(history) = 3
    /\ history[1].method = "offline"
    /\ history[2].method = "online" /\ ~history[2].clientOk
    /\ history[3].method = "online"

\* ------------------------------------------------------------------------
\* C10
\* ------------------------------------------------------------------------

\* C10: in the example program a deregister call is issued only after a
\* register call succeeded: when new() fails the program ends with that error
\* and no registry call; when online() fails it exits with status 1 and
\* offline() is never called; when online() succeeds offline() is called
\* exactly once, and its failure is the program's error.
C10_ExampleProgram ==
    /\ \A i \in 1..Len(calls) :
         calls[i].op = "deregister"
         => \E j \in 1..(i - 1) : calls[j].op = "register" /\ history[j].clientOk
    /\ pc = "failed"
       => (mainPc = "ended" /\ exit = "error" /\ exitErr = Result.err /\ calls = <<>>)
    /\ pc = "panicked" => calls = <<>>
    /\ (history # <<>> /\ ~history[1].clientOk)
       => (mainPc = "ended" /\ exit = "exit1" /\ Len(calls) = 1
           /\ calls[1].op = "register")
    /\ (history # <<>> /\ history[1].clientOk /\ mainPc = "ended")
       => /\ Len(calls) = 2 /\ Len(history) = 2
          /\ calls[1].op = "register" /\ calls[2].op = "deregister"
          /\ history[2].clientOk => exit = "ok"
          /\ ~history[2].clientOk
             => (exit = "error" /\ exitErr = history[2].result.err)
    /\ Len(calls) <= 2

\* online() succeeded, offline() failed and the program ended with its error.
C10_Witness ==
    /\ mainPc = "ended"
    /\ Len(calls) = 2
    /\ history[1].clientOk /\ ~history[2].clientOk
    /\ exit = "error"

====
